---- MODULE Spec2Model ----
(***************************************************************************)
(* Slack notification router (Cloudflare Worker).                          *)
(*                                                                         *)
(* The model follows src/worker/index.js lines 1-165 (the fetch handler    *)
(* with its local extractText, sendWithRetry and forwardMessage) and the   *)
(* helpers of src/worker/config.js (timingSafeEqual, verifySlackRequest)   *)
(* and src/worker/utils.js (shouldProcessEvent, exported sendWithRetry).   *)
(*                                                                         *)
(* JavaScript values are modelled as follows.                              *)
(*   - a string-valued property is a TLA+ string, "undefined" standing for *)
(*     an absent property;                                                 *)
(*   - a text is a sequence of words (maximal \w+ runs), the word "\n"     *)
(*     standing for a newline; an optional text or array is a set with at  *)
(*     most one element ({} is undefined);                                 *)
(*   - a byte string is a sequence of numbers in 0..255.                   *)
(***************************************************************************)
EXTENDS Integers, Sequences, FiniteSets, TLC

VARIABLES
    CONFIG,         \* the rule list imported from ./config.js (read only)
    pc,             \* "idle" | "json" | "fetching" | "waiting" | "done"
    caller,         \* who runs sendWithRetry: "none" | "fetch" | "direct"
    request,        \* the inbound request of the current invocation
    env,            \* the env argument of the current invocation
    now,            \* Math.floor(Date.now() / 1000) during the invocation
    response,       \* the Response the handler returned, NoResponse before
    steps,          \* the pipeline stages the invocation has executed
    text,           \* const text = extractText(event)
    targetChannel,  \* let targetChannel
    payload,        \* forwardMessage's payload ({} before it is built)
    log,            \* console.error entries of the invocation, in order
    swr,            \* sendWithRetry's frame: request, retries, i
    sent,           \* the requests handed to the global fetch, in order
    outcomes,       \* how each finished outbound fetch ended, in order
    waits,          \* the setTimeout delays awaited so far, in order
    result,         \* how sendWithRetry settled: none | returned | threw
    bodyEvent,      \* the object body.event as it is now ({} before parsing)
    cur,            \* the invocation whose code is running
    suspended,      \* the frames of the invocations that are not running
    given,          \* what each invocation was started with
    call,           \* a helper called on its own: its name and arguments
    ret             \* what that helper returned

\* the locals of one invocation: they live in its closure
locals == <<pc, caller, request, env, now, response, steps, text,
            targetChannel, payload, log, swr, sent, outcomes, waits, result,
            bodyEvent>>

\* which invocation runs, and the frames of the others
sched == <<cur, suspended>>

\* a helper call outside any invocation
pure == <<call, ret>>

vars == <<CONFIG, pc, caller, request, env, now, response, steps, text,
          targetChannel, payload, log, swr, sent, outcomes, waits, result,
          bodyEvent, cur, suspended, given, call, ret>>

Undef == "undefined"

-----------------------------------------------------------------------------
(* Bounds of the model. *)

\* longest blocks array of an inbound event
MaxBlocks == 1

\* largest explicit retries argument of a direct sendWithRetry call
MaxRetriesArg == 3

\* invocations of the Worker that are in flight together
MaxInvocations == 2

\* longest byte string handed to timingSafeEqual on its own
MaxBytes == 2

\* longest blocks array handed to extractText on its own
MaxTextBlocks == 2

-----------------------------------------------------------------------------
(* Program constants. *)

\* const MAX_RETRIES = 3;
MAX_RETRIES == 3

\* const baseDelay = 500;
baseDelay == 500

\* 60 * 5 : the replay window of verifySlackRequest, in seconds
ReplayWindow == 60 * 5

PostMessageUrl == "https://slack.com/api/chat.postMessage"

-----------------------------------------------------------------------------
(* JavaScript helpers. *)

\* ToBoolean of a string-valued property: undefined, null and "" are falsy
Truthy(v) == v \notin {Undef, "null", ""}

\* ToBoolean of an optional text: undefined and the empty string are falsy
TruthyText(t) == t # {} /\ t # {<<>>}

\* the value of a present optional
The(opt) == CHOOSE x \in opt : TRUE

RECURSIVE Pow2(_)
Pow2(n) == IF n = 0 THEN 1 ELSE 2 * Pow2(n - 1)

RECURSIVE BitXor(_, _)
BitXor(a, b) ==
    IF a = 0 /\ b = 0 THEN 0
    ELSE (IF (a % 2) # (b % 2) THEN 1 ELSE 0) + 2 * BitXor(a \div 2, b \div 2)

RECURSIVE BitOr(_, _)
BitOr(a, b) ==
    IF a = 0 /\ b = 0 THEN 0
    ELSE (IF (a % 2) = 1 \/ (b % 2) = 1 THEN 1 ELSE 0)
         + 2 * BitOr(a \div 2, b \div 2)

-----------------------------------------------------------------------------
(* src/worker/config.js: the rule list. *)

\* A rule's keyword is one of "deploy" for /\bdeploy\w*\b/i, "error" for
\* /error/i (README) and "any" for /.*/ .

\* RegExp.prototype.test of a rule's keyword on one word of the text
WordTest(keyword, w) ==
    CASE keyword = "deploy" -> w \in {"Deployed"}
      [] keyword = "error"  -> w \in {"error"}
      [] OTHER              -> TRUE

\* rule.keyword.test(text): an unanchored search over the whole text
KeywordTest(keyword, t) ==
    \/ keyword = "any"
    \/ \E k \in 1..Len(t) : WordTest(keyword, t[k])

DefaultConfig ==
    << [keyword |-> "deploy", targetChannelEnv |-> "DEPLOYMENTS_CHANNEL_ID"],
       [keyword |-> "any",    targetChannelEnv |-> "STATUS_CHANNEL_ID"] >>

\* the rule lists a deployment may put in config.js
RuleLists ==
    { DefaultConfig,
      << >>,
      << [keyword |-> "error",  targetChannelEnv |-> "STATUS_CHANNEL_ID"],
         [keyword |-> "deploy", targetChannelEnv |-> "DEPLOYMENTS_CHANNEL_ID"] >>,
      << [keyword |-> "any",    targetChannelEnv |-> "STATUS_CHANNEL_ID"],
         [keyword |-> "deploy", targetChannelEnv |-> "DEPLOYMENTS_CHANNEL_ID"] >> }

-----------------------------------------------------------------------------
(* Inputs: environments, events, envelopes, requests. *)

Envs ==
    [ SLACK_BOT_TOKEN        : {"xoxb-1"},
      SLACK_SIGNING_SECRET   : {"secret"},
      SOURCE_CHANNEL_ID      : {"C1"},
      ALLOWED_BOT_ID         : {Undef, "B2"},
      DEPLOYMENTS_CHANNEL_ID : {Undef, "D1"},
      STATUS_CHANNEL_ID      : {Undef, "S1"} ]

\* env[name]
EnvGet(e, name) ==
    CASE name = "DEPLOYMENTS_CHANNEL_ID" -> e.DEPLOYMENTS_CHANNEL_ID
      [] name = "STATUS_CHANNEL_ID"      -> e.STATUS_CHANNEL_ID
      [] OTHER                           -> Undef

BlockSet ==
    { [type |-> "header",  text |-> {<<"Deployed">>}],
      [type |-> "section", text |-> {<<"error">>}],
      [type |-> "section", text |-> {}],
      [type |-> "divider", text |-> {<<"Deployed">>}] }

RECURSIVE SeqsUpTo(_, _)
SeqsUpTo(S, n) ==
    IF n = 0 THEN {<<>>}
    ELSE LET shorter == SeqsUpTo(S, n - 1)
         IN  shorter \cup {Append(s, x) : s \in shorter, x \in S}

Events ==
    [ isObject    : {TRUE},
      type        : {"message", "app_mention"},
      channel     : {"C1", "C2"},
      bot_id      : {Undef, "B1", "B2"},
      text        : {{}, {<<>>}, {<<"ok">>}, {<<"Deployed">>}},
      blocks      : {{}} \cup {{b} : b \in SeqsUpTo(BlockSet, MaxBlocks)},
      attachments : {{}, {<<"a1">>}} ]

\* body.event of an envelope that carries no event
NoEvent ==
    [ isObject |-> FALSE, type |-> Undef, channel |-> Undef, bot_id |-> Undef,
      text |-> {}, blocks |-> {}, attachments |-> {} ]

\* event objects that lack a type, a channel, or both
MalformedEvents ==
    { [NoEvent EXCEPT !.isObject = TRUE, !.type = ty, !.channel = ch,
                      !.text = {<<"error">>}] :
          <<ty, ch>> \in {<<Undef, Undef>>, <<Undef, "C1">>,
                          <<"message", Undef>>} }

Envelopes ==
    [type : {"url_verification"}, challenge : {"abc123", "c2"},
     event : {NoEvent}]
    \cup [type : {"event_callback"}, challenge : {Undef},
          event : Events \cup MalformedEvents \cup {NoEvent}]
    \cup [type : {"app_rate_limited", Undef}, challenge : {Undef},
          event : {NoEvent}]

NoEnvelope == [type |-> Undef, challenge |-> Undef, event |-> NoEvent]

\* the raw request body: JSON text of an envelope, text that is no JSON, or
\* the JSON text null
RawBodies ==
    {[valid |-> TRUE, isNull |-> FALSE, json |-> b] : b \in Envelopes}
    \cup {[valid |-> FALSE, isNull |-> FALSE, json |-> NoEnvelope]}
    \cup {[valid |-> TRUE, isNull |-> TRUE, json |-> NoEnvelope]}

-----------------------------------------------------------------------------
(* src/worker/config.js: request verification. *)

\* new TextEncoder().encode("v0=")
V0Prefix == <<118, 48, 61>>

\* one digit of b.toString(16), as its character code
HexChar(d) == IF d < 10 THEN 48 + d ELSE 87 + d

\* Number(timestamp): NaN for a header value that is no decimal number
Number(ts) ==
    CASE ts = "1000" -> [nan |-> FALSE, n |-> 1000]
      [] ts = "700"  -> [nan |-> FALSE, n |-> 700]
      [] ts = "699"  -> [nan |-> FALSE, n |-> 699]
      [] ts = "1300" -> [nan |-> FALSE, n |-> 1300]
      [] ts = "1301" -> [nan |-> FALSE, n |-> 1301]
      [] OTHER       -> [nan |-> TRUE,  n |-> 0]

\* Math.abs(now - Number(timestamp)) > 60 * 5 ; any comparison with NaN is false
TooOld(nowv, ts) ==
    LET t == Number(ts)
        d == nowv - t.n
    IN  ~t.nan /\ (IF d < 0 THEN -d ELSE d) > ReplayWindow

\* a number standing for the bytes of `v0:${timestamp}:${rawBody}`
BaseString(ts, raw) ==
    LET e == raw.json.event
        tsCode == CASE ts = "1000" -> 11 [] ts = "700" -> 23 [] ts = "699" -> 37
                    [] ts = "abc" -> 41 [] ts = "1300" -> 43
                    [] ts = "1301" -> 47 [] OTHER -> 0
        typeCode == CASE raw.json.type = "url_verification" -> 3
                      [] raw.json.type = "event_callback" -> 5
                      [] raw.json.type = Undef -> 7
                      [] OTHER -> 9
        eventCode == IF ~e.isObject THEN 0
                     ELSE 13 + (IF e.channel = "C1" THEN 1 ELSE 2)
                             + (IF e.type = "message" THEN 4 ELSE 8)
                             + 16 * Cardinality(e.text)
                             + 32 * Cardinality(e.attachments)
    IN  tsCode + (IF ~raw.valid THEN 1
                  ELSE IF raw.isNull THEN 2
                  ELSE typeCode + eventCode)

\* crypto.subtle.sign("HMAC", key, baseString): a keyed one-byte checksum
\* stands for HMAC-SHA256
HmacSign(signingSecret, base) ==
    ((IF signingSecret = "secret" THEN 101 ELSE 59) + 7 * base) % 256

\* "v0=" + hex digest, as encoded bytes
ComputedSignature(signingSecret, ts, raw) ==
    LET d == HmacSign(signingSecret, BaseString(ts, raw))
    IN  V0Prefix \o <<HexChar(d \div 16), HexChar(d % 16)>>

\* as XorAccumulate, but with  result = ...  in place of  result |= ...
XorAccumulateOverwrite(aBytes, bBytes, k) ==
    IF Len(aBytes) = 0 THEN 0
    ELSE BitXor(aBytes[Len(aBytes)], bBytes[Len(aBytes)])

RECURSIVE XorAccumulate(_, _, _)
\* the loop  result |= aBytes[i] ^ bBytes[i]  over indices k..Len(aBytes)
XorAccumulate(aBytes, bBytes, k) ==
    IF k > Len(aBytes) THEN 0
    ELSE BitOr(BitXor(aBytes[k], bBytes[k]), XorAccumulate(aBytes, bBytes, k + 1))

timingSafeEqual(aBytes, bBytes) ==
    IF Len(aBytes) # Len(bBytes) THEN FALSE
    ELSE XorAccumulate(aBytes, bBytes, 1) = 0

\* as verifySlackRequest, but without the replay protection
verifySlackRequestNoReplayCheck(req, signingSecret, nowv) ==
    IF ~Truthy(req.ts) \/ req.sig = <<>> THEN FALSE
    ELSE timingSafeEqual(ComputedSignature(signingSecret, req.ts, req.raw), req.sig)

\* req.sig is the encoded x-slack-signature header, <<>> when it is missing
verifySlackRequest(req, signingSecret, nowv) ==
    IF ~Truthy(req.ts) \/ req.sig = <<>> THEN FALSE
    ELSE IF TooOld(nowv, req.ts) THEN FALSE
    ELSE timingSafeEqual(ComputedSignature(signingSecret, req.ts, req.raw), req.sig)

\* the signature with its last character changed
Tamper(sig) ==
    [sig EXCEPT ![Len(sig)] = IF sig[Len(sig)] = 48 THEN 49 ELSE 48]

\* the header pairs a sender may attach: timestamp, and how it signs
HeaderCases ==
    { [ts |-> Undef,  sign |-> "good"],
      [ts |-> "1000", sign |-> "none"],
      [ts |-> "699",  sign |-> "good"],
      [ts |-> "1000", sign |-> "bad"],
      [ts |-> "abc",  sign |-> "good"],
      [ts |-> "700",  sign |-> "good"],
      [ts |-> "1000", sign |-> "good"] }

SignatureHeader(h, raw) ==
    CASE h.sign = "none" -> <<>>
      [] h.sign = "bad"  -> Tamper(ComputedSignature("secret", h.ts, raw))
      [] OTHER           -> ComputedSignature("secret", h.ts, raw)

Requests ==
    { [method |-> m, ts |-> h.ts, sig |-> SignatureHeader(h, raw), raw |-> raw] :
        m \in {"POST", "GET"}, h \in HeaderCases, raw \in RawBodies }

NoRequest ==
    [method |-> Undef, ts |-> Undef, sig |-> <<>>,
     raw |-> [valid |-> FALSE, isNull |-> FALSE, json |-> NoEnvelope]]

\* the values Math.floor(Date.now() / 1000) takes
Clock == {1000}

-----------------------------------------------------------------------------
(* src/worker/index.js: extractText and the rule loop. *)

RECURSIVE AppendBlocksSectionOnly(_, _, _)
\* as AppendBlocks, but header blocks are skipped
AppendBlocksSectionOnly(txt, blocks, k) ==
    IF k > Len(blocks) THEN txt
    ELSE LET block == blocks[k]
             afterSection ==
                 IF block.type = "section" /\ TruthyText(block.text)
                 THEN txt \o <<"\n">> \o The(block.text) ELSE txt
         IN  AppendBlocksSectionOnly(afterSection, blocks, k + 1)

RECURSIVE AppendBlocks(_, _, _)
\* the loop over event.blocks from index k on, txt being the text so far
AppendBlocks(txt, blocks, k) ==
    IF k > Len(blocks) THEN txt
    ELSE LET block == blocks[k]
             afterHeader ==
                 IF block.type = "header" /\ TruthyText(block.text)
                 THEN txt \o <<"\n">> \o The(block.text) ELSE txt
             afterSection ==
                 IF block.type = "section" /\ TruthyText(block.text)
                 THEN afterHeader \o <<"\n">> \o The(block.text) ELSE afterHeader
         IN  AppendBlocks(afterSection, blocks, k + 1)

extractText(event) ==
    LET start == IF TruthyText(event.text) THEN The(event.text) ELSE <<>>
    IN  IF event.blocks # {} THEN AppendBlocks(start, The(event.blocks), 1)
        ELSE start

RECURSIVE RuleLoopNoBreak(_, _, _, _)
\* a variant of the rule loop without the break: the last matching rule wins
RuleLoopNoBreak(config, txt, e, k) ==
    IF k > Len(config) THEN "null"
    ELSE LET later == RuleLoopNoBreak(config, txt, e, k + 1)
         IN  IF KeywordTest(config[k].keyword, txt)
                /\ ~\E j \in (k + 1)..Len(config) : KeywordTest(config[j].keyword, txt)
             THEN EnvGet(e, config[k].targetChannelEnv)
             ELSE later

RECURSIVE RuleLoopGlobalFlag(_, _, _, _)
\* as RuleLoop, but the keywords carry the g flag, so that they keep a
\* lastIndex: a test that follows a successful test of the same text fails
RuleLoopGlobalFlag(config, txt, e, k) ==
    IF k > Len(config) THEN "null"
    ELSE IF /\ KeywordTest(config[k].keyword, txt)
            /\ ~\E j \in DOMAIN suspended \ {cur} :
                    /\ suspended[j].pc = "done"
                    /\ suspended[j].text = txt
                    /\ suspended[j].targetChannel =
                           EnvGet(suspended[j].env, config[k].targetChannelEnv)
         THEN EnvGet(e, config[k].targetChannelEnv)
         ELSE RuleLoopGlobalFlag(config, txt, e, k + 1)

RECURSIVE RuleLoop(_, _, _, _)
\* for (const rule of CONFIG) from index k on: the value targetChannel ends with
RuleLoop(config, txt, e, k) ==
    IF k > Len(config) THEN "null"
    ELSE IF KeywordTest(config[k].keyword, txt)
         THEN EnvGet(e, config[k].targetChannelEnv)
         ELSE RuleLoop(config, txt, e, k + 1)

\* src/worker/utils.js: shouldProcessEvent (the handler does not call it)
shouldProcessEvent(event, sourceChannelId) ==
    IF ~event.isObject \/ ~Truthy(event.channel) \/ event.type # "message"
    THEN FALSE
    ELSE event.channel = sourceChannelId

\* a variant of the scope check that ignores only when both tests fail
OutOfScopeBoth(event, e) ==
    event.channel # e.SOURCE_CHANNEL_ID /\ event.type # "message"

\* a variant of the sender filter that compares even when none is configured
BotFilteredAlways(event, e) == event.bot_id # e.ALLOWED_BOT_ID

\* line 124: event.channel !== env.SOURCE_CHANNEL_ID || event.type !== "message"
OutOfScope(event, e) ==
    event.channel # e.SOURCE_CHANNEL_ID \/ event.type # "message"

\* line 132: env.ALLOWED_BOT_ID && event.bot_id !== env.ALLOWED_BOT_ID
BotFiltered(event, e) ==
    Truthy(e.ALLOWED_BOT_ID) /\ event.bot_id # e.ALLOWED_BOT_ID

-----------------------------------------------------------------------------
(* Responses of the handler. *)

NoResponse == [status |-> 0, body |-> Undef, contentType |-> Undef]

\* new Response(body, { status }) : a string body gets the default content type
Response(body, status) ==
    [status |-> status, body |-> body, contentType |-> "text/plain;charset=UTF-8"]

\* a variant of the handshake response that leaves the headers out
ChallengeResponseNoHeaders(challenge) ==
    [status |-> 200, body |-> challenge, contentType |-> "text/plain;charset=UTF-8"]

\* new Response(body.challenge, { headers: { "Content-Type": "text/plain" } })
ChallengeResponse(challenge) ==
    [status |-> 200, body |-> challenge, contentType |-> "text/plain"]

\* the catch block of fetch
\* as InternalError, but the body carries the error's message
InternalErrorWithMessage ==
    Response("Slack API failed after maximum retries.", 500)

InternalError == Response("Internal Error", 500)

-----------------------------------------------------------------------------
(* src/worker/index.js: the handler from request.json() to the call of     *)
(* forwardMessage (lines 109-156).                                         *)

\* exit: "respond" (a return statement), "throw" (caught at line 160) or
\* "forward" (forwardMessage is called with targetChannel)
\* as MethodAllowed, but GET is let through as well
MethodAllowedWithGet(req) == req.method \in {"POST", "GET"}

\* the negation of: if (request.method !== "POST")
MethodAllowed(req) == req.method = "POST"

\* as EventAfter, but forwardMessage stores its fallback text in the event
EventAfterFallback(ev, stages) ==
    IF "forward" \in stages /\ ~TruthyText(ev.text)
    THEN [ev EXCEPT !.text = {<<"[no text]">>}]
    ELSE ev

\* the object body.event after the stages ran on it: extractText and
\* forwardMessage read its properties and assign to none of them
EventAfter(ev, stages) == ev

\* as IsEventCallback, but every envelope that is no handshake is taken for
\* an event callback
IsEventCallbackByDefault(body) == body.type # "url_verification"

\* body.type === "event_callback"
IsEventCallback(body) == body.type = "event_callback"

HandleBody(req, e, config) ==
    LET body  == req.raw.json
        event == body.event
        txt   == extractText(event)
        tgt   == RuleLoop(config, txt, e, 1)
        out(exit, resp, st, t, ch) ==
            [exit |-> exit, response |-> resp, steps |-> st,
             text |-> t, targetChannel |-> ch]
    IN  IF ~req.raw.valid \/ req.raw.isNull
        THEN out("throw", InternalError, {"parse"}, <<>>, "null")
        ELSE IF body.type = "url_verification"
        THEN out("respond", ChallengeResponse(body.challenge),
                 {"parse", "handshake"}, <<>>, "null")
        ELSE IF ~IsEventCallback(body)
        THEN out("respond", Response("OK", 200), {"parse"}, <<>>, "null")
        ELSE IF ~event.isObject
        THEN out("throw", InternalError, {"parse", "scope"}, <<>>, "null")
        ELSE IF OutOfScope(event, e)
        THEN out("respond", Response("Ignored", 200), {"parse", "scope"},
                 <<>>, "null")
        ELSE IF BotFiltered(event, e)
        THEN out("respond", Response("Ignored", 200),
                 {"parse", "scope", "botfilter"}, <<>>, "null")
        ELSE IF ~Truthy(tgt)
        THEN out("respond", Response("Ignored", 200),
                 {"parse", "scope", "botfilter", "extract", "match"}, txt, tgt)
        ELSE out("forward", NoResponse,
                 {"parse", "scope", "botfilter", "extract", "match", "forward"},
                 txt, tgt)

-----------------------------------------------------------------------------
(* src/worker/index.js: forwardMessage and sendWithRetry. *)

\* const payload = { channel, text }, plus attachments and blocks when truthy
\* as BuildPayload, but the message is posted back to the channel it came from
BuildPayloadSourceChannel(event, target) ==
    [ channel     |-> event.channel,
      text        |-> IF TruthyText(event.text) THEN The(event.text)
                      ELSE <<"[no text]">>,
      attachments |-> event.attachments,
      blocks      |-> event.blocks ]

\* as BuildPayload, but the blocks are not copied
BuildPayloadNoBlocks(event, target) ==
    [ channel     |-> target,
      text        |-> IF TruthyText(event.text) THEN The(event.text)
                      ELSE <<"[no text]">>,
      attachments |-> event.attachments,
      blocks      |-> {} ]

BuildPayload(event, target) ==
    [ channel     |-> target,
      text        |-> IF TruthyText(event.text) THEN The(event.text)
                      ELSE <<"[no text]">>,
      attachments |-> event.attachments,
      blocks      |-> event.blocks ]

\* the first argument forwardMessage hands to sendWithRetry
ForwardUrlArg ==
    [kind |-> "url", url |-> PostMessageUrl, method |-> Undef,
     Authorization |-> Undef, contentType |-> Undef, body |-> {}]

\* the second argument forwardMessage hands to sendWithRetry: the fetch options
ForwardOptionsArg(pl, e) ==
    [kind |-> "object", n |-> 0,
     options |-> [ method        |-> "POST",
                   Authorization |-> <<"Bearer", e.SLACK_BOT_TOKEN>>,
                   contentType   |-> "application/json",
                   body          |-> {[json |-> pl]} ]]

NoOptions ==
    [method |-> Undef, Authorization |-> Undef, contentType |-> Undef, body |-> {}]

UndefinedArg == [kind |-> "undefined", n |-> 0, options |-> NoOptions]

NumberArg(k) == [kind |-> "number", n |-> k, options |-> NoOptions]

\* retries = MAX_RETRIES : the default applies to an undefined argument only
DefaultRetries(arg) == IF arg.kind = "undefined" THEN NumberArg(MAX_RETRIES) ELSE arg

\* as LoopTest, but with  i <= retries
LoopTestInclusive(i, retries) == retries.kind = "number" /\ i <= retries.n

\* i < retries ; an object converts to NaN, and a comparison with NaN is false
LoopTest(i, retries) == retries.kind = "number" /\ i < retries.n

\* i === retries - 1
IsLastAttempt(i, retries) == retries.kind = "number" /\ i = retries.n - 1

\* fetch(request): what goes on the wire for the argument of sendWithRetry;
\* a bare URL is fetched with the defaults (GET, no headers, no body)
FetchInit(arg) ==
    IF arg.kind = "url"
    THEN [url |-> arg.url, method |-> "GET", Authorization |-> Undef,
          contentType |-> Undef, body |-> {}]
    ELSE [url |-> arg.url, method |-> arg.method,
          Authorization |-> arg.Authorization,
          contentType |-> arg.contentType, body |-> arg.body]

\* how an outbound fetch may end
HttpOutcomes ==
    { [kind |-> "http", status |-> 200, json |-> "ok"],
      [kind |-> "http", status |-> 200, json |-> "notok"],
      [kind |-> "http", status |-> 404, json |-> "notjson"],
      [kind |-> "http", status |-> 429, json |-> "notok"],
      [kind |-> "http", status |-> 500, json |-> "notjson"],
      [kind |-> "http", status |-> 503, json |-> "notjson"] }

TransportFailure == [kind |-> "transport", status |-> 0, json |-> "none"]

FetchOutcomes == HttpOutcomes \cup {TransportFailure}

\* res.ok
ResOk(res) == res.status >= 200 /\ res.status <= 299

\* a variant that also retries a permanent 4xx rejection
RetryableStatusAny4xx(res) == res.status >= 400

\* res.status === 429 || res.status >= 500
RetryableStatus(res) == res.status = 429 \/ res.status >= 500

NoRes == [kind |-> "none", status |-> 0, json |-> "none"]

NoResult == [kind |-> "none", res |-> NoRes, error |-> ""]

Returned(res) == [kind |-> "returned", res |-> res, error |-> ""]

Threw(msg) == [kind |-> "threw", res |-> NoRes, error |-> msg]

MaxRetriesError == "Slack API failed after maximum retries."

\* forwardMessage after  await sendWithRetry(...)  and the handler after
\* await forwardMessage(...) : lines 94-99 and 156-163
AwaitForwardMessage(r) ==
    IF r.kind = "threw"
    THEN [response |-> InternalError, log |-> <<"Worker Error">>]
    ELSE IF r.res.json = "notjson"
    THEN [response |-> InternalError, log |-> <<"Worker Error">>]
    ELSE IF r.res.json = "notok"
    THEN [response |-> Response("OK", 200), log |-> <<"Slack API error">>]
    ELSE [response |-> Response("OK", 200), log |-> <<>>]

-----------------------------------------------------------------------------
(* The state machine. *)

NoEnv ==
    [ SLACK_BOT_TOKEN |-> Undef, SLACK_SIGNING_SECRET |-> Undef,
      SOURCE_CHANNEL_ID |-> Undef, ALLOWED_BOT_ID |-> Undef,
      DEPLOYMENTS_CHANNEL_ID |-> Undef, STATUS_CHANNEL_ID |-> Undef ]

NoFrame == [request |-> ForwardUrlArg, retries |-> UndefinedArg, i |-> 0]

\* a prepared Request, as sendWithRetry's documentation asks for
DirectRequests ==
    { [kind |-> "Request", url |-> PostMessageUrl, method |-> "POST",
       Authorization |-> <<"Bearer", "xoxb-1">>,
       contentType |-> "application/json",
       body |-> {[json |-> [channel |-> "S1", text |-> <<"ok">>,
                            attachments |-> {}, blocks |-> {}]]}] }

\* the retries arguments of a direct call: omitted, or a number
DirectRetries == {UndefinedArg} \cup {NumberArg(k) : k \in 0..MaxRetriesArg}

\* the invocations that can be in flight together
Invocations == 1..MaxInvocations

\* the locals of an invocation that has not started or is over
IdleFrame ==
    [ pc |-> "idle", caller |-> "none", request |-> NoRequest, env |-> NoEnv,
      now |-> 0, response |-> NoResponse, steps |-> {}, text |-> <<>>,
      targetChannel |-> "null", payload |-> {}, log |-> <<>>, swr |-> NoFrame,
      sent |-> <<>>, outcomes |-> <<>>, waits |-> <<>>, result |-> NoResult,
      bodyEvent |-> {} ]

\* an invocation that was not started
NoGiven ==
    [kind |-> "none", request |-> NoRequest, env |-> NoEnv,
     retries |-> UndefinedArg]

\* no helper was called on its own
NoCall == [fn |-> "none"]

Init ==
    /\ CONFIG \in RuleLists
    /\ pc = "idle"
    /\ caller = "none"
    /\ request = NoRequest
    /\ env = NoEnv
    /\ now = 0
    /\ response = NoResponse
    /\ steps = {}
    /\ text = <<>>
    /\ targetChannel = "null"
    /\ payload = {}
    /\ log = <<>>
    /\ swr = NoFrame
    /\ sent = <<>>
    /\ outcomes = <<>>
    /\ waits = <<>>
    /\ result = NoResult
    /\ bodyEvent = {}
    /\ cur = 1
    /\ suspended = [j \in Invocations |-> IdleFrame]
    /\ given = [j \in Invocations |-> NoGiven]
    /\ call = NoCall
    /\ ret = Undef

\* the deployment runs the rule list of config.js
InitConc == Init /\ CONFIG = DefaultConfig

\* as Settle, but the handler does not await forwardMessage: it answers OK
\* without the outcome of the delivery
SettleUnawaited(who, r, logSoFar) ==
    /\ pc' = "done"
    /\ log' = logSoFar
    /\ IF who = "direct"
       THEN response' = NoResponse /\ result' = r
       ELSE response' = Response("OK", 200) /\ result' = NoResult

\* sendWithRetry settles with r for the caller who: a direct caller just gets
\* r; forwardMessage and the handler run on to the handler's response
Settle(who, r, logSoFar) ==
    /\ result' = r
    /\ pc' = "done"
    /\ IF who = "direct"
       THEN response' = NoResponse /\ log' = logSoFar
       ELSE LET fin == AwaitForwardMessage(r)
            IN  response' = fin.response /\ log' = logSoFar \o fin.log

\* sendWithRetry(request, retries = MAX_RETRIES) up to its first await
sendWithRetry(who, arg1, arg2, logSoFar) ==
    LET retries == DefaultRetries(arg2)
    IN  /\ swr' = [request |-> arg1, retries |-> retries, i |-> 0]
        /\ outcomes' = <<>>
        /\ waits' = <<>>
        /\ IF LoopTest(0, retries)
           THEN /\ sent' = <<FetchInit(arg1)>>
                /\ pc' = "fetching"
                /\ result' = NoResult
                /\ response' = NoResponse
                /\ log' = logSoFar
           ELSE /\ sent' = <<>>
                /\ Settle(who, Threw(MaxRetriesError), logSoFar)

\* the platform invokes fetch(request, env, ctx): the method check, then the
\* handler awaits request.json()
Fetch(req, e, t) ==
    /\ pc = "idle"
    /\ request' = req
    /\ env' = e
    /\ now' = t
    /\ caller' = "fetch"
    /\ steps' = {"method"}
    /\ text' = <<>>
    /\ targetChannel' = "null"
    /\ payload' = {}
    /\ log' = <<>>
    /\ swr' = NoFrame
    /\ sent' = <<>>
    /\ outcomes' = <<>>
    /\ waits' = <<>>
    /\ result' = NoResult
    /\ bodyEvent' = {}
    /\ given' = [given EXCEPT ![cur] = [kind |-> "fetch", request |-> req,
                                        env |-> e, retries |-> UndefinedArg]]
    /\ IF ~MethodAllowed(req)
       THEN response' = Response("Only POST allowed", 405) /\ pc' = "done"
       ELSE response' = NoResponse /\ pc' = "json"
    /\ UNCHANGED <<CONFIG, sched, pure>>

\* request.json() settles and the handler runs on: to a response, or into
\* forwardMessage and sendWithRetry up to the first outbound fetch
ParseBody ==
    /\ pc = "json"
    /\ LET h == HandleBody(request, env, CONFIG)
       IN  /\ steps' = steps \cup h.steps
           /\ text' = h.text
           /\ targetChannel' = h.targetChannel
           /\ IF h.exit = "forward"
              THEN LET pl == BuildPayload(request.raw.json.event, h.targetChannel)
                   IN  /\ payload' = {pl}
                       /\ sendWithRetry("fetch", ForwardUrlArg,
                                        ForwardOptionsArg(pl, env), log)
              ELSE /\ payload' = {}
                   /\ response' = h.response
                   /\ log' = IF h.exit = "throw"
                             THEN Append(log, "Worker Error") ELSE log
                   /\ pc' = "done"
                   /\ UNCHANGED <<swr, sent, outcomes, waits, result>>
           /\ bodyEvent' =
                  IF request.raw.valid /\ request.raw.json.event.isObject
                       THEN {EventAfter(request.raw.json.event, h.steps)}
                       ELSE {}
    /\ UNCHANGED <<CONFIG, caller, request, env, now, sched, given, pure>>

\* a caller other than the handler calls the exported sendWithRetry
CallSendWithRetry(arg1, arg2) ==
    /\ pc = "idle"
    /\ caller' = "direct"
    /\ request' = NoRequest
    /\ env' = NoEnv
    /\ now' = 0
    /\ steps' = {}
    /\ text' = <<>>
    /\ targetChannel' = "null"
    /\ payload' = {}
    /\ bodyEvent' = {}
    /\ given' = [given EXCEPT ![cur] = [kind |-> "direct", request |-> NoRequest,
                                        env |-> NoEnv, retries |-> arg2]]
    /\ sendWithRetry("direct", arg1, arg2, <<>>)
    /\ UNCHANGED <<CONFIG, sched, pure>>

\* the pending outbound fetch ends with outcome o
Attempt(o) ==
    /\ pc = "fetching"
    /\ outcomes' = Append(outcomes, o)
    /\ IF o.kind = "http"
       THEN IF ResOk(o)
            THEN Settle(caller, Returned(o), log) /\ UNCHANGED waits
            ELSE IF RetryableStatus(o)
            THEN /\ waits' = Append(waits, baseDelay * Pow2(swr.i))
                 /\ pc' = "waiting"
                 /\ UNCHANGED <<result, response, log>>
            ELSE Settle(caller, Returned(o), log) /\ UNCHANGED waits
       ELSE IF IsLastAttempt(swr.i, swr.retries)
            THEN Settle(caller, Threw("fetch failed"), log) /\ UNCHANGED waits
            ELSE /\ waits' = Append(waits, baseDelay * Pow2(swr.i))
                 /\ pc' = "waiting"
                 /\ UNCHANGED <<result, response, log>>
    /\ UNCHANGED <<CONFIG, caller, request, env, now, steps, text,
                   targetChannel, payload, swr, sent, bodyEvent, sched, given,
                   pure>>

\* the backoff timer fires: i++, the loop test, and the next fetch or the throw
Timer ==
    /\ pc = "waiting"
    /\ swr' = [swr EXCEPT !.i = @ + 1]
    /\ IF LoopTest(swr.i + 1, swr.retries)
       THEN /\ sent' = Append(sent, FetchInit(swr.request))
            /\ pc' = "fetching"
            /\ UNCHANGED <<result, response, log>>
       ELSE /\ Settle(caller, Threw(MaxRetriesError), log)
            /\ UNCHANGED sent
    /\ UNCHANGED <<CONFIG, caller, request, env, now, steps, text,
                   targetChannel, payload, outcomes, waits, bodyEvent, sched,
                   given, pure>>

\* the invocation is over: its request, response and locals are dropped
Complete ==
    /\ pc = "done"
    /\ pc' = "idle"
    /\ caller' = "none"
    /\ request' = NoRequest
    /\ env' = NoEnv
    /\ now' = 0
    /\ response' = NoResponse
    /\ steps' = {}
    /\ text' = <<>>
    /\ targetChannel' = "null"
    /\ payload' = {}
    /\ log' = <<>>
    /\ swr' = NoFrame
    /\ sent' = <<>>
    /\ outcomes' = <<>>
    /\ waits' = <<>>
    /\ result' = NoResult
    /\ bodyEvent' = {}
    /\ given' = [given EXCEPT ![cur] = NoGiven]
    /\ UNCHANGED <<CONFIG, sched, pure>>

\* the platform delivers some request with some environment
Invoke ==
    /\ pc = "idle"
    /\ \E req \in Requests, e \in Envs, t \in Clock : Fetch(req, e, t)

\* some direct call of sendWithRetry
Call ==
    /\ pc = "idle"
    /\ \E arg1 \in DirectRequests, arg2 \in DirectRetries :
           CallSendWithRetry(arg1, arg2)

\* the pending outbound fetch ends in some way
Downstream ==
    /\ pc = "fetching"
    /\ \E o \in FetchOutcomes : Attempt(o)

Next ==
    \/ Invoke
    \/ ParseBody
    \/ Call
    \/ Downstream
    \/ Timer
    \/ Complete

Spec == Init /\ [][Next]_vars

-----------------------------------------------------------------------------
(* sendWithRetry called on its own, under a runtime in which every pending
   fetch settles and every timer fires. *)

NextRetry ==
    \/ Call
    \/ Downstream
    \/ Timer
    \/ Complete

SpecRetry ==
    /\ InitConc
    /\ [][NextRetry]_vars
    /\ WF_vars(Downstream)
    /\ WF_vars(Timer)

-----------------------------------------------------------------------------
(* Several invocations in flight: the runtime runs one of them at a time and
   may switch to another one wherever the running one awaits or has returned. *)

\* the locals of the running invocation
Frame ==
    [ pc |-> pc, caller |-> caller, request |-> request, env |-> env,
      now |-> now, response |-> response, steps |-> steps, text |-> text,
      targetChannel |-> targetChannel, payload |-> payload, log |-> log,
      swr |-> swr, sent |-> sent, outcomes |-> outcomes, waits |-> waits,
      result |-> result, bodyEvent |-> bodyEvent ]

\* as Resume, but request and env are kept in module-level variables that the
\* invocations share
ResumeSharedRequest(f) == [f EXCEPT !.request = request, !.env = env]

\* the locals an invocation finds when it runs on: request, env, body and the
\* rest are parameters and const/let bindings of the activation of fetch
Resume(f) == f

\* the runtime runs invocation j on
Switch(j) ==
    /\ j # cur
    /\ cur' = j
    /\ suspended' = [suspended EXCEPT ![cur] = Frame, ![j] = IdleFrame]
    /\ LET f == Resume(suspended[j])
       IN  /\ pc' = f.pc
           /\ caller' = f.caller
           /\ request' = f.request
           /\ env' = f.env
           /\ now' = f.now
           /\ response' = f.response
           /\ steps' = f.steps
           /\ text' = f.text
           /\ targetChannel' = f.targetChannel
           /\ payload' = f.payload
           /\ log' = f.log
           /\ swr' = f.swr
           /\ sent' = f.sent
           /\ outcomes' = f.outcomes
           /\ waits' = f.waits
           /\ result' = f.result
           /\ bodyEvent' = f.bodyEvent
    /\ UNCHANGED <<CONFIG, given, pure>>

\* the events of the requests that are in flight together
ConcEvents ==
    { ev \in Events :
        /\ ev.type = "message" /\ ev.channel = "C1" /\ ev.bot_id = Undef
        /\ ev.text \in {{<<"Deployed">>}, {<<"ok">>}}
        /\ ev.blocks = {} /\ ev.attachments = {} }

\* the requests that are in flight together
ConcRequests ==
    { req \in Requests :
        /\ req.ts = "1000" /\ verifySlackRequest(req, "secret", 1000)
        /\ \/ req.method = "GET" /\ ~req.raw.valid
           \/ /\ req.method = "POST"
              /\ \/ ~req.raw.valid
                 \/ req.raw.json.type = "url_verification"
                    /\ req.raw.json.challenge = "abc123"
                 \/ req.raw.json.type = "event_callback"
                    /\ req.raw.json.event \in ConcEvents \cup {NoEvent} }

\* their environments
ConcEnvs ==
    { e \in Envs : e.ALLOWED_BOT_ID = Undef /\ e.STATUS_CHANNEL_ID = "S1" }

\* how the outbound fetches of calls in flight together end
ConcOutcomes ==
    { [kind |-> "http", status |-> 200, json |-> "ok"],
      [kind |-> "http", status |-> 503, json |-> "notjson"],
      TransportFailure }

InvokeConc ==
    /\ pc = "idle"
    /\ \E req \in ConcRequests, e \in ConcEnvs, t \in Clock : Fetch(req, e, t)

CallConc ==
    /\ pc = "idle"
    /\ \E arg1 \in DirectRequests : CallSendWithRetry(arg1, UndefinedArg)

DownstreamConc ==
    /\ pc = "fetching"
    /\ \E o \in ConcOutcomes : Attempt(o)

Yield == \E j \in Invocations : Switch(j)

NextConc ==
    \/ InvokeConc
    \/ ParseBody
    \/ CallConc
    \/ DownstreamConc
    \/ Timer
    \/ Complete
    \/ Yield

SpecConc == InitConc /\ [][NextConc]_vars

-----------------------------------------------------------------------------
(* The helpers called on their own, outside any invocation. *)

\* the timestamp headers handed to verifySlackRequest
VerifyTimestamps == {Undef, "", "699", "700", "1000", "1300", "1301", "abc"}

\* the bodies handed to verifySlackRequest
VerifyBodies ==
    { raw \in RawBodies :
        \/ ~raw.valid
        \/ raw.json.type = "url_verification"
        \/ raw.json.type = "event_callback" /\ ~raw.json.event.isObject }

\* the x-slack-signature headers a sender may attach to timestamp ts and body
\* raw: none, the right one, one signed with another secret, the right one
\* with one character changed, cut short, or extended
VerifySignatures(ts, raw) ==
    LET good == ComputedSignature("secret", ts, raw)
    IN  {<<>>, good, ComputedSignature("other", ts, raw)}
        \cup {[good EXCEPT ![k] = IF good[k] = 48 THEN 49 ELSE 48] :
                  k \in 1..Len(good)}
        \cup {SubSeq(good, 1, Len(good) - 1), Append(good, 48)}

\* the signing secrets of the environment
SigningSecrets == {"secret", "other"}

\* the character codes of the strings handed to timingSafeEqual
ByteSet == {0, 48, 255}

\* the blocks of the events handed to extractText
TextBlockSet ==
    { [type |-> "header",  text |-> {<<"Deployed">>}],
      [type |-> "section", text |-> {<<"error", "500">>}],
      [type |-> "section", text |-> {<<>>}],
      [type |-> "section", text |-> {}],
      [type |-> "divider", text |-> {<<"ok">>}] }

\* the events handed to extractText
TextEvents ==
    [ isObject    : {TRUE},
      type        : {"message"},
      channel     : {"C1"},
      bot_id      : {Undef},
      text        : {{}, {<<>>}, {<<"ok">>}},
      blocks      : {{}} \cup {{b} : b \in SeqsUpTo(TextBlockSet, MaxTextBlocks)},
      attachments : {{}} ]

\* verifySlackRequest(request, signingSecret) at time t
CallVerifySlackRequest(req, signingSecret, t) ==
    /\ call' = [fn |-> "verifySlackRequest", request |-> req,
                signingSecret |-> signingSecret, now |-> t]
    /\ ret' = verifySlackRequest(req, signingSecret, t)
    /\ UNCHANGED <<CONFIG, locals, sched, given>>

\* timingSafeEqual(a, b), the strings given as their encoded bytes
CallTimingSafeEqual(aBytes, bBytes) ==
    /\ call' = [fn |-> "timingSafeEqual", a |-> aBytes, b |-> bBytes]
    /\ ret' = timingSafeEqual(aBytes, bBytes)
    /\ UNCHANGED <<CONFIG, locals, sched, given>>

\* extractText(event)
CallExtractText(ev) ==
    /\ call' = [fn |-> "extractText", event |-> ev]
    /\ ret' = extractText(ev)
    /\ UNCHANGED <<CONFIG, locals, sched, given>>

\* some call of verifySlackRequest
Verify ==
    /\ call = NoCall
    /\ \E ts \in VerifyTimestamps, raw \in VerifyBodies :
        \E sig \in VerifySignatures(ts, raw), secret \in SigningSecrets,
           t \in Clock :
            CallVerifySlackRequest(
                [method |-> "POST", ts |-> ts, sig |-> sig, raw |-> raw],
                secret, t)

\* some call of timingSafeEqual
Compare ==
    /\ call = NoCall
    /\ \E aBytes, bBytes \in SeqsUpTo(ByteSet, MaxBytes) :
           CallTimingSafeEqual(aBytes, bBytes)

\* some call of extractText
Extract ==
    /\ call = NoCall
    /\ \E ev \in TextEvents : CallExtractText(ev)

NextPure ==
    \/ Verify
    \/ Compare
    \/ Extract

SpecPure == Init /\ [][NextPure]_vars

-----------------------------------------------------------------------------
(* Properties. *)

\* the handler has returned its response
Responded == caller = "fetch" /\ pc = "done"

\* the handler reached the call of forwardMessage
Forwarded == "forward" \in steps

\* the request passes verifySlackRequest under the invocation's secret and clock
Verified == verifySlackRequest(request, env.SLACK_SIGNING_SECRET, now)

\* the stages after the envelope is parsed and the handshake is answered
RoutingStages == {"scope", "botfilter", "extract", "match", "forward"}

IsBearerPost(req) ==
    /\ req.url = PostMessageUrl
    /\ req.method = "POST"
    /\ req.Authorization = <<"Bearer", env.SLACK_BOT_TOKEN>>
    /\ req.body = {[json |-> The(payload)]}

\* a retryable end of an attempt, in the words of the specification
Transient(o) == o.kind = "transport" \/ o.status = 429 \/ o.status >= 500

ServerError(o) == o.kind = "http" /\ o.status >= 500

\* C1: a POST whose signature verification fails is answered 403 and nothing
\* else is done with it: no handshake echo, no routing, no outbound post.
C1_UnverifiedRejected ==
    (Responded /\ request.method = "POST" /\ ~Verified)
        => /\ response.status = 403
           /\ steps \subseteq {"method"}
           /\ sent = <<>>

\* C2: a request that reaches delivery is answered 200 whatever the delivery
\* outcome is; a delivery failure never makes the inbound response a 500.
C2_DeliveryNeverFailsInbound ==
    (Responded /\ Forwarded) => response.status = 200

\* C3: when every answer to forwardMessage's attempts is a 5xx, exactly 3
\* attempts are made and the waits between them are 500 ms then 1000 ms.
C3_ThreeAttemptsOn5xx ==
    (Responded /\ Forwarded /\ \A k \in 1..Len(outcomes) : ServerError(outcomes[k]))
        => /\ Len(sent) = 3
           /\ Len(waits) >= 2
           /\ SubSeq(waits, 1, 2) = <<500, 1000>>

\* C4: every request forwardMessage issues is a POST with the bearer token and
\* the JSON payload as body, and each forwardMessage call issues at least one.
C4_AuthenticatedPost ==
    (caller = "fetch" /\ Forwarded)
        => /\ \A k \in 1..Len(sent) : IsBearerPost(sent[k])
           /\ pc = "done" => Len(sent) >= 1

\* C5: in sendWithRetry an attempt is followed by another one exactly when it
\* ended in 429, a status of 500 or above or a transport failure and the
\* attempt budget is not used up; any other status is returned at once.
C5_RetryIffTransient ==
    /\ \A k \in 1..Len(outcomes) :
          k < Len(sent) => Transient(outcomes[k]) /\ k < swr.retries.n
    /\ (pc = "done" /\ outcomes # <<>>)
          => LET last == outcomes[Len(outcomes)]
             IN  /\ Len(sent) = Len(outcomes)
                 /\ ~(Transient(last) /\ Len(outcomes) < swr.retries.n)
                 /\ ~Transient(last)
                       => /\ result = Returned(last)
                          /\ Len(waits) = Len(outcomes) - 1

\* C5 witness: a transport failure is retried, then a 404 is returned at once
C5_Witness ==
    /\ caller = "direct" /\ pc = "done"
    /\ Len(outcomes) = 2
    /\ outcomes[1].kind = "transport"
    /\ outcomes[2].status = 404
    /\ result.kind = "returned"
    /\ swr.retries.n = MAX_RETRIES

\* C6: against a downstream that answers 2xx with ok:false, forwardMessage
\* makes one attempt and no more, records the error and returns normally, so
\* the inbound request completes with 200.
C6_OkFalseNotRetried ==
    (Responded /\ Forwarded
       /\ \A k \in 1..Len(outcomes) :
             ResOk(outcomes[k]) /\ outcomes[k].json = "notok")
        => /\ Len(sent) = 1
           /\ log = <<"Slack API error">>
           /\ response.status = 200

\* the inbound envelope and event of the current invocation
Body == request.raw.json

Event == request.raw.json.event

\* a POST whose body parsed to an event_callback carrying an event object
EventCallback ==
    /\ Responded
    /\ request.method = "POST"
    /\ request.raw.valid
    /\ Body.type = "event_callback"
    /\ Event.isObject

\* the index of the earliest rule of the list whose pattern matches, 0 if none
FirstMatch(config, txt) ==
    LET matching == {k \in 1..Len(config) : KeywordTest(config[k].keyword, txt)}
    IN  IF matching = {} THEN 0
        ELSE CHOOSE k \in matching : \A j \in matching : k <= j

\* the handler ended with "no destination": 200 Ignored and nothing forwarded
NoDestination ==
    /\ response = Response("Ignored", 200)
    /\ ~Forwarded
    /\ sent = <<>>

\* the handler ran the rule loop
Routed == Responded /\ "match" \in steps

\* C7: the routing step selects the destination of the earliest matching rule
\* and ends with "no destination" if and only if no rule of the list matches.
C7_NoDestinationIffNoMatch ==
    Routed =>
        LET m == FirstMatch(CONFIG, text)
        IN  /\ m # 0 => targetChannel = EnvGet(env, CONFIG[m].targetChannelEnv)
            /\ NoDestination <=> m = 0

\* C7 (amended): the routing step selects the destination of the earliest
\* matching rule and ends with "no destination" if and only if no rule matches
\* or the destination variable of the earliest matching rule is unset or empty.
C7_FirstMatchWins ==
    Routed =>
        LET m == FirstMatch(CONFIG, text)
        IN  /\ m # 0 => targetChannel = EnvGet(env, CONFIG[m].targetChannelEnv)
            /\ m = 0 => targetChannel = "null"
            /\ NoDestination <=>
                  (m = 0 \/ ~Truthy(EnvGet(env, CONFIG[m].targetChannelEnv)))

\* C7 witness: two rules match, the destination of the first one is selected
C7_Witness ==
    /\ Routed /\ Forwarded
    /\ Len(CONFIG) = 2
    /\ KeywordTest(CONFIG[1].keyword, text)
    /\ KeywordTest(CONFIG[2].keyword, text)
    /\ targetChannel = "D1"
    /\ EnvGet(env, CONFIG[2].targetChannelEnv) = "S1"

\* C8: a verified POST of type url_verification is answered 200, text/plain,
\* with the challenge as body, and no routing stage or outbound post runs.
C8_HandshakeEcho ==
    (/\ Responded /\ request.method = "POST" /\ Verified
     /\ request.raw.valid /\ Body.type = "url_verification")
        => /\ response = [status |-> 200, body |-> Body.challenge,
                          contentType |-> "text/plain"]
           /\ steps \cap RoutingStages = {}
           /\ sent = <<>>

\* C8 witness: a verified handshake has been answered
C8_Witness ==
    /\ Responded /\ request.method = "POST" /\ Verified
    /\ request.raw.valid /\ Body.type = "url_verification"
    /\ response.body = "c2"

\* C9: an event_callback whose event type is not "message" or whose channel is
\* not the configured source channel is answered 200 with no outbound post.
C9_OutOfScopeIgnored ==
    (EventCallback
       /\ (Event.type # "message" \/ Event.channel # env.SOURCE_CHANNEL_ID))
        => /\ response.status = 200
           /\ ~Forwarded
           /\ payload = {}
           /\ sent = <<>>

\* C9 witness: a message from another channel has been ignored
C9_Witness ==
    /\ EventCallback
    /\ Event.type = "message"
    /\ Event.channel = "C2"
    /\ Event.text = {<<"Deployed">>}
    /\ response = Response("Ignored", 200)

BotIds == {Undef, "B1", "B2"}

\* the request with the event's bot_id replaced by b
WithBotId(req, b) == [req EXCEPT !.raw.json.event.bot_id = b]

\* C10: with ALLOWED_BOT_ID configured, an in-scope event is forwarded only if
\* its bot_id equals it, and is otherwise answered 200 with no outbound post;
\* with none configured, the bot_id has no effect on the routing outcome.
C10_SenderFilter ==
    (EventCallback /\ Event.type = "message"
       /\ Event.channel = env.SOURCE_CHANNEL_ID)
        => /\ (Truthy(env.ALLOWED_BOT_ID) /\ Forwarded)
                 => Event.bot_id = env.ALLOWED_BOT_ID
           /\ (Truthy(env.ALLOWED_BOT_ID) /\ Event.bot_id # env.ALLOWED_BOT_ID)
                 => /\ response = Response("Ignored", 200)
                    /\ ~Forwarded
                    /\ sent = <<>>
           /\ ~Truthy(env.ALLOWED_BOT_ID)
                 => \A b \in BotIds :
                      LET h == HandleBody(WithBotId(request, b), env, CONFIG)
                      IN  /\ h.targetChannel = targetChannel
                          /\ ("forward" \in h.steps) <=> Forwarded
                          /\ ~Forwarded => h.response = response

\* C10 witness: an in-scope event of another bot has been ignored
C10_Witness ==
    /\ EventCallback /\ Event.type = "message"
    /\ Event.channel = env.SOURCE_CHANNEL_ID
    /\ env.ALLOWED_BOT_ID = "B2"
    /\ Event.bot_id = "B1"
    /\ "botfilter" \in steps /\ "match" \notin steps
    /\ response = Response("Ignored", 200)

\* C11: an event_callback whose event is absent, or lacks a channel or a type,
\* is out of scope: it is answered 200 with no outbound post, never 500.
C11_MalformedEventIgnored ==
    (/\ Responded /\ request.method = "POST"
     /\ request.raw.valid /\ Body.type = "event_callback"
     /\ (~Event.isObject \/ ~Truthy(Event.channel) \/ ~Truthy(Event.type)))
        => /\ response.status = 200
           /\ ~Forwarded
           /\ sent = <<>>

\* an exception was raised inside the handler's try block
Raised ==
    /\ Responded /\ request.method = "POST"
    /\ \/ ~request.raw.valid
       \/ request.raw.isNull
       \/ Body.type = "event_callback" /\ ~Event.isObject
       \/ result.kind = "threw"
       \/ result.kind = "returned" /\ result.res.json = "notjson"

\* C12: every invocation of the handler ends with one response whose status is
\* 200, 403, 405 or 500, and an exception raised at any step is answered with
\* the generic 500 that carries no detail of the error.
C12_OneResponse ==
    /\ (response # NoResponse) <=> Responded
    /\ Responded => response.status \in {200, 403, 405, 500}
    /\ Raised => /\ response.status = 500
                 /\ response.body = "Internal Error"
                 /\ response.contentType = "text/plain;charset=UTF-8"

\* C12 witness: a body that is no JSON has been answered with the generic 500
C12_Witness ==
    /\ Raised
    /\ ~request.raw.valid
    /\ response.status = 500
    /\ log = <<"Worker Error">>

\* C14: a request whose method is not POST is answered 405 at the first exit:
\* its body is not parsed, no later stage runs and no outbound post is made.
C14_NonPostRejected ==
    (caller = "fetch" /\ request.method # "POST")
        => /\ pc = "done"
           /\ response.status = 405
           /\ response.body = "Only POST allowed"
           /\ steps = {"method"}
           /\ bodyEvent = {}
           /\ payload = {}
           /\ sent = <<>>

\* C14 witness: a GET that carries a routable event has been answered 405
C14_Witness ==
    /\ Responded
    /\ request.method = "GET"
    /\ request.raw.valid /\ Body.type = "event_callback"
    /\ Event.type = "message" /\ Event.channel = env.SOURCE_CHANNEL_ID
    /\ Event.text = {<<"Deployed">>}
    /\ response.status = 405

\* C15: the payload forwardMessage builds has the selected destination as
\* channel, the event's text (the placeholder "[no text]" when the event has
\* none) as text, the event's attachments and blocks exactly when the event
\* has them and identical to them, and no other field.
C15_PayloadPreserved ==
    (caller = "fetch" /\ Forwarded)
        => /\ Cardinality(payload) = 1
           /\ LET p == The(payload)
                  m == FirstMatch(CONFIG, text)
              IN  /\ DOMAIN p = {"channel", "text", "attachments", "blocks"}
                  /\ p.channel = EnvGet(env, CONFIG[m].targetChannelEnv)
                  /\ Event.text \in {{}, {<<>>}} => p.text = <<"[no text]">>
                  /\ Event.text \notin {{}, {<<>>}} => {p.text} = Event.text
                  /\ p.attachments = Event.attachments
                  /\ p.blocks = Event.blocks

\* C15 witness: an event with blocks and attachments and no text of its own
\* has been handed to forwardMessage
C15_Witness ==
    /\ caller = "fetch" /\ Forwarded
    /\ Event.text = {}
    /\ Event.blocks = {<<[type |-> "section", text |-> {<<"error">>}]>>}
    /\ Event.attachments = {<<"a1">>}
    /\ The(payload).text = <<"[no text]">>
    /\ The(payload).channel = "S1"

\* C13: verifySlackRequest returns false for every request whose signature or
\* timestamp header is missing, whose timestamp is more than 300 seconds from
\* the current time, or whose signature differs from the recomputed one.
C13_VerifyRejects ==
    call.fn = "verifySlackRequest" =>
        LET req == call.request
            n == Number(req.ts)
            expected == ComputedSignature(call.signingSecret, req.ts, req.raw)
            missing == req.ts = Undef \/ req.sig = <<>>
            skewed == ~n.nan /\ (call.now - n.n > 300 \/ n.n - call.now > 300)
            differs == \/ Len(req.sig) # Len(expected)
                       \/ \E k \in 1..Len(expected) : req.sig[k] # expected[k]
        IN  (missing \/ skewed \/ differs) => ret = FALSE

\* C13 witness: a request signed with the right secret over a timestamp 301
\* seconds ahead has been rejected
C13_Witness ==
    /\ call.fn = "verifySlackRequest"
    /\ call.request.ts = "1301" /\ call.now = 1000
    /\ call.signingSecret = "secret"
    /\ call.request.sig =
          ComputedSignature("secret", "1301", call.request.raw)
    /\ ret = FALSE

RECURSIVE Lines(_)
\* a newline and the nested text, for each block of bs in order
Lines(bs) ==
    IF bs = <<>> THEN <<>>
    ELSE <<"\n">> \o The(Head(bs).text) \o Lines(Tail(bs))

\* the block is a header or a section with non-empty nested text
Contributes(b) == b.type \in {"header", "section"} /\ b.text \notin {{}, {<<>>}}

\* C16: extractText(event) is event.text (or the empty string) followed, in
\* block order, by a newline and the nested text of every header or section
\* block whose nested text is non-empty; other blocks add nothing. An event
\* without text whose section block reads "error 500" matches /error/i.
C16_ExtractText ==
    call.fn = "extractText" =>
        LET ev == call.event
            start == IF ev.text = {} THEN <<>> ELSE The(ev.text)
            bs == IF ev.blocks = {} THEN <<>> ELSE The(ev.blocks)
        IN  /\ ret = start \o Lines(SelectSeq(bs, Contributes))
            /\ (/\ ev.text = {}
                /\ bs = <<[type |-> "section", text |-> {<<"error", "500">>}]>>)
                   => KeywordTest("error", ret)

\* C16 witness: a header and a section block follow the event's own text
C16_Witness ==
    /\ call.fn = "extractText"
    /\ call.event.text = {<<"ok">>}
    /\ call.event.blocks =
          {<<[type |-> "header",  text |-> {<<"Deployed">>}],
             [type |-> "section", text |-> {<<"error", "500">>}]>>}
    /\ ret = <<"ok", "\n", "Deployed", "\n", "error", "500">>

\* C17: timingSafeEqual(a, b) is true exactly when the encoded byte strings of
\* a and b have the same length and every byte is equal.
C17_TimingSafeEqual ==
    call.fn = "timingSafeEqual" =>
        (ret = TRUE <=>
            /\ Len(call.a) = Len(call.b)
            /\ \A k \in 1..Len(call.a) : call.a[k] = call.b[k])

\* C17 witness: two strings of one length that differ in their first byte
\* only have been found unequal
C17_Witness ==
    /\ call.fn = "timingSafeEqual"
    /\ Len(call.a) = 2 /\ Len(call.b) = 2
    /\ call.a[1] # call.b[1]
    /\ call.a[2] = call.b[2]
    /\ ret = FALSE

\* the locals of invocation j, running or not
FrameOf(j) == IF j = cur THEN Frame ELSE suspended[j]

\* invocation j is a finished handling of an event that reached the rule loop
RoutedIn(j) ==
    /\ given[j].kind = "fetch"
    /\ FrameOf(j).pc = "done"
    /\ "match" \in FrameOf(j).steps

RECURSIVE SoloLoop(_, _, _)
\* sendWithRetry run on its own from attempt i on, its fetches ending as outs
\* says: how it settles, and how many fetches it made
SoloLoop(retries, outs, i) ==
    IF ~LoopTest(i, retries)
    THEN [result |-> Threw(MaxRetriesError), attempts |-> i]
    ELSE LET o == outs[i + 1]
         IN  IF o.kind = "http" /\ (ResOk(o) \/ ~RetryableStatus(o))
             THEN [result |-> Returned(o), attempts |-> i + 1]
             ELSE IF o.kind # "http" /\ IsLastAttempt(i, retries)
             THEN [result |-> Threw("fetch failed"), attempts |-> i + 1]
             ELSE SoloLoop(retries, outs, i + 1)

\* the handler run on its own on req and e, its fetches ending as outs
SoloFetch(req, e, config, outs) ==
    IF ~MethodAllowed(req)
    THEN [response |-> Response("Only POST allowed", 405), attempts |-> 0]
    ELSE LET h == HandleBody(req, e, config)
             pl == BuildPayload(req.raw.json.event, h.targetChannel)
             run == SoloLoop(DefaultRetries(ForwardOptionsArg(pl, e)), outs, 0)
         IN  IF h.exit # "forward"
             THEN [response |-> h.response, attempts |-> 0]
             ELSE [response |-> AwaitForwardMessage(run.result).response,
                   attempts |-> run.attempts]

\* the finished invocation with locals f, started with g, ended as it would
\* have ended alone
AsAlone(g, f) ==
    f.pc = "done" =>
        /\ g.kind = "fetch" =>
              LET alone == SoloFetch(g.request, g.env, CONFIG, f.outcomes)
              IN  /\ f.response = alone.response
                  /\ Len(f.sent) = alone.attempts
                  /\ Len(f.outcomes) = alone.attempts
        /\ g.kind = "direct" =>
              LET alone == SoloLoop(DefaultRetries(g.retries), f.outcomes, 0)
              IN  /\ f.result = alone.result
                  /\ Len(f.sent) = alone.attempts
                  /\ Len(f.outcomes) = alone.attempts
        /\ \A k \in 1..Len(f.sent) : f.sent[k] = FetchInit(f.swr.request)

\* an invocation that runs with no other one in flight ends as SoloFetch and
\* SoloLoop say
AloneAgrees == AsAlone(given[cur], Frame)

DefaultCall ==
    caller = "direct" /\ pc # "idle" /\ given[cur].retries = UndefinedArg

\* the attempt ended in 429, in a status of 500 or above, or in a transport
\* failure
RetryableFailure(o) ==
    \/ o.kind = "transport"
    \/ o.kind = "http" /\ (o.status = 429 \/ o.status >= 500)

\* the safety part of C21
C21_AttemptBudget ==
    DefaultCall =>
        /\ Len(sent) >= 1 /\ Len(sent) <= 3
        /\ pc \in {"fetching", "waiting"}
              => \A k \in 1..Len(outcomes) : RetryableFailure(outcomes[k])
        /\ pc = "done"
              => LET n == Len(outcomes)
                     last == outcomes[n]
                 IN  /\ n = Len(sent)
                     /\ \A k \in 1..(n - 1) : RetryableFailure(outcomes[k])
                     /\ ~RetryableFailure(last) => result = Returned(last)
                     /\ RetryableFailure(last)
                           => n = 3 /\ result.kind = "threw"

\* C21: for every sequence of downstream outcomes, sendWithRetry with the
\* default retry count terminates after at least 1 and at most 3 attempts: it
\* returns the response of the first attempt that ends in a 2xx or in a
\* non-retryable status, and raises a failure when all 3 attempts end in a
\* retryable failure.
C21_Terminates ==
    /\ []C21_AttemptBudget
    /\ (DefaultCall /\ pc \in {"fetching", "waiting"}) ~> (pc = "done")

\* C21 witness: a 503, a transport failure and a 429 used up the three
\* attempts and the call raised
C21_Witness ==
    /\ DefaultCall /\ pc = "done"
    /\ Len(outcomes) = 3
    /\ outcomes[1].status = 503
    /\ outcomes[2].kind = "transport"
    /\ outcomes[3].status = 429
    /\ result.kind = "threw"

\* C22: for a request that reaches delivery the handler produces its response
\* only after the delivery has concluded, with a returned downstream response
\* or a raised failure; there is no response while an attempt or a backoff
\* wait of the request is pending.
C22_ResponseAfterDelivery ==
    (caller = "fetch" /\ Forwarded)
        => /\ response # NoResponse
                 => /\ pc = "done"
                    /\ result.kind \in {"returned", "threw"}
                    /\ Len(outcomes) = Len(sent)
           /\ pc \in {"fetching", "waiting"} => response = NoResponse

\* C22 witness: the delivery of a deployment message has ended in a raised
\* failure and the handler has responded after it
C22_Witness ==
    /\ Responded /\ Forwarded
    /\ Event.text = {<<"Deployed">>}
    /\ targetChannel = "D1"
    /\ result = Threw(MaxRetriesError)
    /\ response.status = 500

\* C23: verifySlackRequest returns true only if the timestamp header denotes a
\* number within 300 seconds of the current time; a timestamp that is present
\* but no decimal number is rejected even under a correct signature.
C23_NumericTimestampOnly ==
    (call.fn = "verifySlackRequest" /\ ret = TRUE)
        => LET n == Number(call.request.ts)
           IN  /\ ~n.nan
               /\ call.now - n.n <= 300
               /\ n.n - call.now <= 300

\* C24: in sendWithRetry a backoff wait occurs only between two attempts:
\* after the last permitted attempt ends in a retryable failure, status or
\* transport failure alike, the failure is raised without a further wait, so
\* that an exhausted call has made one wait less than attempts.
C24_WaitsOnlyBetweenAttempts ==
    (caller = "direct" /\ Len(sent) >= 1)
        => /\ pc = "waiting" => swr.i + 1 < swr.retries.n
           /\ (pc = "done" /\ result.kind = "threw")
                 => Len(waits) = Len(sent) - 1

\* C25: for one inbound request every outbound post attempt carries one and
\* the same destination channel, the one resolved for the first matching
\* rule, and a request that exited at the method, handshake, scope,
\* sender-filter or no-match step has no post at all.
C25_OneDestination ==
    caller = "fetch" =>
        /\ Cardinality(payload) <= 1
        /\ Forwarded
              => /\ payload # {}
                 /\ The(payload).channel =
                       EnvGet(env, CONFIG[FirstMatch(CONFIG, text)].targetChannelEnv)
                 /\ \A k \in 1..Len(sent) :
                       /\ sent[k].body # {}
                       /\ The(sent[k].body).json.channel = The(payload).channel
        /\ ~Forwarded => sent = <<>> /\ payload = {}

\* C25 witness: a message that matches the error rule and the deploy rule has
\* been handed to delivery with the destination of the error rule, the first
\* one of the list
C25_Witness ==
    /\ Responded /\ Forwarded
    /\ Len(CONFIG) = 2
    /\ CONFIG[1].keyword = "error" /\ CONFIG[2].keyword = "deploy"
    /\ KeywordTest("error", text) /\ KeywordTest("deploy", text)
    /\ env.DEPLOYMENTS_CHANNEL_ID = "D1"
    /\ The(payload).channel = "S1"

\* C26: a POST whose envelope type is neither url_verification nor
\* event_callback, an envelope without type included, is answered 200 with no
\* classification, no rule matching and no outbound post.
C26_OtherTypesAcknowledged ==
    (/\ Responded /\ request.method = "POST"
     /\ request.raw.valid /\ ~request.raw.isNull
     /\ Body.type \notin {"url_verification", "event_callback"})
        => /\ response.status = 200
           /\ steps = {"method", "parse"}
           /\ text = <<>>
           /\ targetChannel = "null"
           /\ payload = {}
           /\ sent = <<>>

\* C26 witness: an envelope without type has been answered 200
C26_Witness ==
    /\ Responded /\ request.method = "POST"
    /\ request.raw.valid /\ ~request.raw.isNull
    /\ Body.type = Undef
    /\ response = Response("OK", 200)
    /\ log = <<>>

====
